---- MODULE Spec2Model ----
(***************************************************************************)
(* A model of update_data.py: a single-shot script that fetches rows from  *)
(* a Google spreadsheet, normalises them, serialises them to JSON and      *)
(* creates/updates a data file on one or more branches of a GitHub         *)
(* repository.                                                             *)
(*                                                                         *)
(* Text is a sequence of code points, a byte string a sequence of numbers  *)
(* 0..255.  A spreadsheet cell is [t, i, s]: an integer (t = "int") or a   *)
(* text (t = "str").  A row is a function from column names to cells.      *)
(***************************************************************************)
EXTENDS Integers, Sequences, FiniteSets, TLC

\* ------------------------------------------------------------------ bounds

\* rows of a Dataset handed to transform_data on its own
MaxRows == 2
\* worksheets of the spreadsheet handed to fetch_data on its own
MaxSheets == 3
\* entries of GITHUB_CONFIG['TARGET_BRANCHES']
MaxBranches == 2
\* invocations of the script in a row (the external cron trigger)
MaxRuns == 2
\* writes by somebody else to the target file during a run
MaxOtherWrites == 1

\* ------------------------------------------------------- python primitives

Range(s) == {s[i] : i \in 1..Len(s)}

\* Python truthiness of a text: the empty text is falsy.
Truthy(k) == k # <<>>

RECURSIVE Digits(_)
Digits(n) == IF n < 10 THEN <<48 + n>> ELSE Digits(n \div 10) \o <<48 + (n % 10)>>

\* unicode(v) of a cell value: decimal digits of an integer, a text as is.
unicode(v) ==
    IF v.t = "int"
    THEN (IF v.i < 0 THEN <<45>> \o Digits(0 - v.i) ELSE Digits(v.i))
    ELSE v.s

\* code point order of two texts (the order sort_keys=True sorts keys by)
RECURSIVE LexLess(_, _)
LexLess(a, b) ==
    IF a = <<>> THEN b # <<>>
    ELSE IF b = <<>> THEN FALSE
    ELSE IF Head(a) # Head(b) THEN Head(a) < Head(b)
    ELSE LexLess(Tail(a), Tail(b))

RECURSIVE SortedKeys(_)
SortedKeys(S) ==
    IF S = {} THEN <<>>
    ELSE LET m == CHOOSE k \in S : \A o \in S \ {k} : LexLess(k, o)
         IN  <<m>> \o SortedKeys(S \ {m})

\* the concatenation of a sequence of sequences
RECURSIVE Concat(_)
Concat(ss) ==
    IF ss = <<>> THEN <<>>
    ELSE IF Len(ss) = 1 THEN ss[1]
    ELSE LET half == Len(ss) \div 2
         IN  Concat(SubSeq(ss, 1, half)) \o Concat(SubSeq(ss, half + 1, Len(ss)))

\* sep.join(parts)
Join(parts, sep) ==
    Concat([i \in 1..(2 * Len(parts) - 1) |->
               IF i % 2 = 1 THEN parts[(i + 1) \div 2] ELSE sep])

\* --------------------------------------------------------- transform_data

\* The value of _transform_response_item: None, or a dict of texts.
PyNone == [none |-> TRUE, dict |-> <<>>]

\* Python truthiness of that value: None and the empty dict are falsy.
PyTruthy(x) == ~x.none /\ DOMAIN x.dict # {}

_transform_response_item(item, skip) ==
    LET _transformed_item ==
            [k \in {c \in DOMAIN item : Truthy(c)} |-> unicode(item[k])]
    IN  IF skip THEN PyNone ELSE [none |-> FALSE, dict |-> _transformed_item]

\* filter(None, [_transform_response_item(item) for item in data])
transform_data(d) ==
    LET items == [i \in 1..Len(d) |-> _transform_response_item(d[i], FALSE)]
        kept  == SelectSeq(items, PyTruthy)
    IN  [i \in 1..Len(kept) |-> kept[i].dict]

\* -------------------------------------------------------------- make_json

\* json.dumps(..., indent=4)
indent == 4

Spaces(n) == [i \in 1..n |-> 32]

\* "\n" and the indentation of nesting level `level`
NewlineIndent(level) == <<10>> \o Spaces(indent * level)

\* json's encode_basestring with ensure_ascii=False: only ", \ and the
\* line feed are escaped here; everything else is kept literally.
EscapeChar(c) ==
    IF c = 34 THEN <<92, 34>>
    ELSE IF c = 92 THEN <<92, 92>>
    ELSE IF c = 10 THEN <<92, 110>>
    ELSE <<c>>

encode_basestring(s) ==
    <<34>> \o Concat([i \in 1..Len(s) |-> EscapeChar(s[i])]) \o <<34>>

\* one dict at nesting level `level`, keys sorted, separators (', ', ': ')
JsonDict(rec, level) ==
    IF DOMAIN rec = {} THEN <<123, 125>>
    ELSE LET keys  == SortedKeys(DOMAIN rec)
             pairs == [i \in 1..Len(keys) |->
                          encode_basestring(keys[i]) \o <<58, 32>>
                              \o encode_basestring(rec[keys[i]])]
         IN  <<123>> \o NewlineIndent(level + 1)
                 \o Join(pairs, <<44, 32>> \o NewlineIndent(level + 1))
                 \o NewlineIndent(level) \o <<125>>

\* json.dumps(data, sort_keys=True, indent=4, ensure_ascii=False)
json_dumps(d) ==
    IF d = <<>> THEN <<91, 93>>
    ELSE LET items == [i \in 1..Len(d) |-> JsonDict(d[i], 1)]
         IN  <<91>> \o NewlineIndent(1)
                 \o Join(items, <<44, 32>> \o NewlineIndent(1))
                 \o NewlineIndent(0) \o <<93>>

EncodeChar(c) ==
    IF c < 128 THEN <<c>>
    ELSE IF c < 2048 THEN <<192 + (c \div 64), 128 + (c % 64)>>
    ELSE <<224 + (c \div 4096), 128 + ((c \div 64) % 64), 128 + (c % 64)>>

\* text.encode('utf-8')
encode_utf8(text) == Concat([i \in 1..Len(text) |-> EncodeChar(text[i])])

IsContinuation(b) == b >= 128 /\ b < 192

DecodeError == [ok |-> FALSE, text |-> <<>>]

\* bytes.decode('utf-8'): the text, or a UnicodeDecodeError (ok = FALSE).
\* One-, two- and three-byte forms; a lead byte must be followed by its
\* continuation bytes, a continuation byte must belong to a lead byte, and
\* an overlong form is an error.
decode_utf8(b) ==
    LET n        == Len(b)
        Lead1(i) == b[i] < 128
        Lead2(i) == b[i] >= 194 /\ b[i] < 224
        Lead3(i) == b[i] >= 224 /\ b[i] < 240
        Cont(i)  == i >= 1 /\ i <= n /\ IsContinuation(b[i])
        Point(i) ==
            IF Lead1(i) THEN b[i]
            ELSE IF Lead2(i) THEN (b[i] - 192) * 64 + (b[i + 1] - 128)
            ELSE (b[i] - 224) * 4096 + (b[i + 1] - 128) * 64 + (b[i + 2] - 128)
        Valid(i) ==
            IF Lead1(i) THEN TRUE
            ELSE IF Lead2(i) THEN Cont(i + 1)
            ELSE IF Lead3(i) THEN Cont(i + 1) /\ Cont(i + 2) /\ Point(i) >= 2048
            ELSE IF Cont(i)
            THEN \/ i > 1 /\ (Lead2(i - 1) \/ Lead3(i - 1))
                 \/ i > 2 /\ Cont(i - 1) /\ Lead3(i - 2)
            ELSE FALSE
        leads    == SelectSeq([i \in 1..n |-> i], LAMBDA i : ~Cont(i))
    IN  IF \A i \in 1..n : Valid(i)
        THEN [ok |-> TRUE, text |-> [j \in 1..Len(leads) |-> Point(leads[j])]]
        ELSE DecodeError

\* the bytes make_json returns: json_out.encode('utf-8')
make_json_bytes(d) == encode_utf8(json_dumps(d))

\* ------------------------------------------------------------------ state

VARIABLES
    environ,                       \* names of the environment variables set
    GOOGLE_SPREADSHEET_SHEETNAME,  \* module-level configuration ...
    FETCH_MULTIPLE_WORKSHEETS,
    WORKSHEETS_TO_SKIP,
    MAKE_LOCAL_JSON,
    COMMIT_JSON_TO_GITHUB,
    TARGET_BRANCHES,               \* GITHUB_CONFIG['TARGET_BRANCHES']
    spreadsheet,                   \* the Google spreadsheet: its worksheets
    remoteAtStart,                 \* `remote` before the first invocation
    remote,                        \* the target file on each target branch
    localFile,                     \* the local copy of TARGET_FILE
    pc,                            \* where the script is
    exitCode,                      \* the process's exit status (-1: running)
    raisedAt,                      \* the call that raised ("" if none did)
    argMultiple, argSkip,          \* the arguments of the fetch_data call
    fetched,                       \* what fetch_data returned
    data,                          \* update_data's `data` after transform_data
    json_data,                     \* what make_json returned
    branchIdx,                     \* commit_json's position in TARGET_BRANCHES
    contents,                      \* commit_json's `contents` of this branch
    calls,                         \* this process's network calls, oldest first
    commits,                       \* the commits the script has made, all runs
    run,                           \* which invocation this is
    exits,                         \* exit statuses of the earlier invocations
    otherWrites                    \* writes made by somebody else

config == <<environ, GOOGLE_SPREADSHEET_SHEETNAME, FETCH_MULTIPLE_WORKSHEETS,
            WORKSHEETS_TO_SKIP, MAKE_LOCAL_JSON, COMMIT_JSON_TO_GITHUB,
            TARGET_BRANCHES, spreadsheet, remoteAtStart>>

vars == <<config, remote, localFile, pc, exitCode, raisedAt, argMultiple,
          argSkip, fetched, data, json_data, branchIdx, contents, calls,
          commits, run, exits, otherWrites>>

\* the os.environ[...] lookups of GITHUB_CONFIG and GOOGLE_API_CONFIG
EnvVars == {"GITHUB_TOKEN", "GOOGLE_API_CLIENT_EMAIL", "GOOGLE_API_PRIVATE_KEY"}

IntCell(n) == [t |-> "int", i |-> n, s |-> <<>>]
StrCell(x) == [t |-> "str", i |-> 0, s |-> x]

\* ------------------------------------------------------------- fetch_data

\* The rows fetch_data returns, or ok = FALSE where gspread raises
\* (WorksheetNotFound for an unknown GOOGLE_SPREADSHEET_SHEETNAME).
fetch_data(multiple_sheets, worksheets_to_skip) ==
    IF ~multiple_sheets
    THEN IF GOOGLE_SPREADSHEET_SHEETNAME # ""
         THEN LET named == SelectSeq(spreadsheet,
                      LAMBDA sheet : sheet.title = GOOGLE_SPREADSHEET_SHEETNAME)
              IN  IF named = <<>> THEN [ok |-> FALSE, data |-> <<>>]
                  ELSE [ok |-> TRUE, data |-> named[1].records]
         ELSE [ok |-> TRUE, data |-> spreadsheet[1].records]
    ELSE LET worksheet_list == SelectSeq(spreadsheet,
                 LAMBDA sheet : sheet.title \notin Range(WORKSHEETS_TO_SKIP))
         IN  [ok |-> TRUE,
              data |-> Concat([i \in 1..Len(worksheet_list) |->
                                  worksheet_list[i].records])]

\* ----------------------------------------------------- the GitHub contents

NoFile == [present |-> FALSE, content |-> <<>>]
File(bytes) == [present |-> TRUE, content |-> bytes]

\* git's blob id: a hash of the length and the bytes, taken as collision free
BlobSha(bytes) == <<Len(bytes)>> \o bytes

\* what repo.contents(path, ref) returns: None (found = FALSE) or a Contents
NoContents == [found |-> FALSE, decoded |-> <<>>, sha |-> <<>>]
ContentsOf(file) ==
    IF file.present
    THEN [found |-> TRUE, decoded |-> file.content, sha |-> BlobSha(file.content)]
    ELSE NoContents

\* the API accepts a create only where no file is
CreateAccepted(file) == ~file.present
\* ... and an update only with the id of the blob that is there
UpdateAccepted(file, sha) == file.present /\ BlobSha(file.content) = sha

Call(op, branch, sha, ok) ==
    [op |-> op, branch |-> branch, sha |-> sha, ok |-> ok]

Commit(op, b) == [run |-> run, op |-> op, branch |-> b]

\* ----------------------------------------------------------------- inputs

\* rows {"n": 5, "": "x"}, {"b": "e-acute", "a": 12} and {"": "x"}
RowA == (<<110>> :> IntCell(5)) @@ (<<>> :> StrCell(<<120>>))
RowB == (<<98>> :> StrCell(<<233>>)) @@ (<<97>> :> IntCell(12))
RowC == (<<>> :> StrCell(<<120>>))

SheetTitles == <<"A", "B", "C", "D", "E">>
BranchNames == <<"gh-pages", "master", "staging", "preview">>

\* the spreadsheet the whole script is run on
PipelineSpreadsheet ==
    <<[title |-> "A", records |-> <<RowA>>],
      [title |-> "B", records |-> <<RowB, RowC>>]>>

\* (FETCH_MULTIPLE_WORKSHEETS, WORKSHEETS_TO_SKIP, GOOGLE_SPREADSHEET_SHEETNAME)
\* the whole script is run with; the first is the source's
FetchConfigs ==
    {[multiple |-> FALSE, skip |-> <<>>, name |-> ""],
     [multiple |-> FALSE, skip |-> <<>>, name |-> "B"],
     [multiple |-> TRUE, skip |-> <<"A">>, name |-> ""]}

SeqsUpTo(S, n) == UNION {[1..k -> S] : k \in 0..n}

\* the Datasets transform_data is applied to on its own
KeyPool == {<<>>, <<97>>, <<98>>}
CellPool == {IntCell(12), StrCell(<<233>>)}
Rows == UNION {[K -> CellPool] : K \in SUBSET KeyPool}
Datasets == SeqsUpTo(Rows, MaxRows)

\* the spreadsheets and skip-lists fetch_data is applied to on its own
SheetRowChoices == {<<>>, <<RowA>>, <<RowB>>, <<RowB, RowA>>}
Spreadsheets ==
    UNION {{[i \in 1..k |-> [title |-> SheetTitles[i], records |-> f[i]]] :
               f \in [1..k -> SheetRowChoices]} : k \in 1..MaxSheets}
SkipLists == {<<>>, <<"B">>, <<"A", "C">>, <<"Z", "B">>}

\* the bytes the script will publish, as the configuration stands
ExpectedPayload ==
    make_json_bytes(transform_data(
        fetch_data(FETCH_MULTIPLE_WORKSHEETS, WORKSHEETS_TO_SKIP).data))

\* what the target file may be on a branch: absent, the payload already,
\* other JSON ("[]" and a line feed), or bytes that are not UTF-8
FileStates ==
    {NoFile, File(ExpectedPayload), File(<<91, 93, 10>>), File(<<255>>)}

\* ------------------------------------------------------------ the script

\* ImportModule with the Google credentials read only where they are used:
\* the start-up checks the GitHub token alone.
ImportModuleLazy ==
    /\ pc = "import"
    /\ IF "GITHUB_TOKEN" \in environ
       THEN pc' = "fetch_data" /\ UNCHANGED <<exitCode, raisedAt>>
       ELSE pc' = "exited" /\ exitCode' = 1 /\ raisedAt' = "import"
    /\ UNCHANGED <<commits, config, remote, localFile, argMultiple, argSkip,
                   fetched, data, json_data, branchIdx, contents, calls, run,
                   exits, otherWrites>>

\* module level, lines 13-25: os.environ[...] raises KeyError for a variable
\* that is not set; nothing catches it, the interpreter prints the traceback
\* and exits with status 1.
ImportModule ==
    /\ pc = "import"
    /\ IF EnvVars \subseteq environ
       THEN pc' = "fetch_data" /\ UNCHANGED <<exitCode, raisedAt>>
       ELSE pc' = "exited" /\ exitCode' = 1 /\ raisedAt' = "import"
    /\ UNCHANGED <<commits, config, remote, localFile, argMultiple, argSkip, fetched,
                   data, json_data, branchIdx, contents, calls, run, exits,
                   otherWrites>>

\* The gspread calls of one fetch_data call, oldest first.
FetchOps == <<"authorize", "open_by_key", "get_all_records">>

\* fetch_data(multiple_sheets, worksheets_to_skip): authenticate, open the
\* spreadsheet, read the rows.  Any of the three calls may fail (failAt > 0),
\* which raises out of fetch_data.
DoFetch(multiple_sheets, worksheets_to_skip) ==
    /\ pc = "fetch_data"
    /\ argMultiple' = multiple_sheets
    /\ argSkip' = worksheets_to_skip
    /\ \E failAt \in 0..Len(FetchOps) :
          LET r    == fetch_data(multiple_sheets, worksheets_to_skip)
              last == IF failAt = 0 THEN Len(FetchOps) ELSE failAt
              ok   == failAt = 0 /\ r.ok
          IN  /\ calls' = calls \o
                     [i \in 1..last |-> Call(FetchOps[i], "", <<>>, i < last \/ ok)]
              /\ IF ok
                 THEN fetched' = r.data /\ pc' = "transform_data"
                                        /\ UNCHANGED raisedAt
                 ELSE pc' = "raised" /\ raisedAt' = "fetch_data"
                                     /\ UNCHANGED fetched
    /\ UNCHANGED <<commits, config, remote, localFile, exitCode, data, json_data,
                   branchIdx, contents, run, exits, otherWrites>>

\* update_data, line 201
FetchData == DoFetch(FETCH_MULTIPLE_WORKSHEETS, WORKSHEETS_TO_SKIP)

\* fetch_data called on its own, with any arguments
CallFetchData ==
    \E multiple_sheets \in BOOLEAN, worksheets_to_skip \in SkipLists :
        DoFetch(multiple_sheets, worksheets_to_skip)

\* update_data, line 204
TransformData ==
    /\ pc = "transform_data"
    /\ data' = transform_data(fetched)
    /\ pc' = "make_json"
    /\ UNCHANGED <<commits, config, remote, localFile, exitCode, raisedAt, argMultiple,
                   argSkip, fetched, json_data, branchIdx, contents, calls,
                   run, exits, otherWrites>>

\* make_json returning what the local file holds instead of json_out
make_json_from_file(d, store_locally, writable) ==
    LET json_out == json_dumps(d)
        file     == IF store_locally /\ writable
                    THEN [exists |-> TRUE, text |-> json_out]
                    ELSE localFile
    IN  [raised |-> store_locally /\ ~writable,
         file   |-> file,
         bytes  |-> encode_utf8(file.text)]

\* make_json(data, store_locally): the bytes returned and the local file
\* afterwards; raised where io.open fails (`writable` is the file system's
\* answer).
make_json(d, store_locally, writable) ==
    LET json_out == json_dumps(d)
    IN  [raised |-> store_locally /\ ~writable,
         file   |-> IF store_locally /\ writable
                    THEN [exists |-> TRUE, text |-> json_out]
                    ELSE localFile,
         bytes  |-> encode_utf8(json_out)]

\* update_data, line 207
MakeJson ==
    /\ pc = "make_json"
    /\ \E writable \in BOOLEAN :
          LET r == make_json(data, MAKE_LOCAL_JSON, writable)
          IN  /\ localFile' = r.file
              /\ IF r.raised
                 THEN pc' = "raised" /\ raisedAt' = "make_json"
                                     /\ UNCHANGED json_data
                 ELSE pc' = "commit_json" /\ json_data' = r.bytes
                                          /\ UNCHANGED raisedAt
    /\ UNCHANGED <<commits, config, remote, exitCode, argMultiple, argSkip, fetched,
                   data, branchIdx, contents, calls, run, exits, otherWrites>>

\* commit_json, lines 163-166: log in and get the repository
CommitLogin ==
    /\ pc = "commit_json"
    /\ \E ok \in BOOLEAN :
          /\ calls' = calls \o <<Call("login", "", <<>>, TRUE),
                                 Call("repository", "", <<>>, ok)>>
          /\ IF ok
             THEN pc' = "contents" /\ branchIdx' = 1 /\ UNCHANGED raisedAt
             ELSE pc' = "raised" /\ raisedAt' = "repository"
                                 /\ UNCHANGED branchIdx
    /\ UNCHANGED <<commits, config, remote, localFile, exitCode, argMultiple, argSkip,
                   fetched, data, json_data, contents, run, exits, otherWrites>>

branch == TARGET_BRANCHES[branchIdx]

\* AfterBranch with the branch's body wrapped in try/except: continue
AfterBranchContinue(normally) ==
    IF branchIdx < Len(TARGET_BRANCHES)
    THEN [pc |-> "contents", idx |-> branchIdx + 1]
    ELSE [pc |-> "return", idx |-> branchIdx + 1]

\* Where the loop of line 168 goes after this branch's body: to the next
\* branch when the body ended normally, out of commit_json when it raised.
AfterBranch(normally) ==
    IF ~normally THEN [pc |-> "raised", idx |-> branchIdx]
    ELSE IF branchIdx < Len(TARGET_BRANCHES)
    THEN [pc |-> "contents", idx |-> branchIdx + 1]
    ELSE [pc |-> "return", idx |-> branchIdx + 1]

\* lines 170-173: repo.contents(path, ref=branch)
Lookup ==
    /\ pc = "contents"
    /\ \E ok \in BOOLEAN :
          LET found == ContentsOf(remote[branch])
          IN  /\ calls' = calls \o
                     <<Call("contents", branch, IF ok THEN found.sha ELSE <<>>, ok)>>
              /\ IF ok
                 THEN contents' = found /\ pc' = "branch_body"
                                        /\ UNCHANGED raisedAt
                 ELSE pc' = "raised" /\ raisedAt' = "contents"
                                     /\ UNCHANGED contents
    /\ UNCHANGED <<commits, config, remote, localFile, exitCode, argMultiple, argSkip,
                   fetched, data, json_data, branchIdx, run, exits, otherWrites>>

\* WritesEnabled with the commit flag ignored
WritesEnabledAlways == TRUE

\* line 175: if commit
WritesEnabled == COMMIT_JSON_TO_GITHUB

\* Compare finding every file that is there equal to the data
CompareAlwaysSame(mine, theirs) ==
    LET a == decode_utf8(mine)
        b == decode_utf8(theirs)
    IN  [raised |-> ~a.ok \/ ~b.ok, same |-> a.ok /\ b.ok]

\* Compare of the text with the bytes (a unicode with a str): never equal
CompareNeverSame(mine, theirs) ==
    LET a == decode_utf8(mine)
        b == decode_utf8(theirs)
    IN  [raised |-> ~a.ok \/ ~b.ok, same |-> FALSE]

\* line 187: data.decode('utf-8') == contents.decoded.decode('utf-8')
Compare(mine, theirs) ==
    LET a == decode_utf8(mine)
        b == decode_utf8(theirs)
    IN  [raised |-> ~a.ok \/ ~b.ok, same |-> a.ok /\ b.ok /\ a.text = b.text]

\* UpdateSha asking for the blob id again right before the update
UpdateShaFresh == BlobSha(remote[branch].content)

\* line 194: sha=contents.sha
UpdateSha == contents.sha

\* line 175 with commit False: nothing more is done for this branch
DryRun ==
    /\ pc = "branch_body"
    /\ ~WritesEnabled
    /\ pc' = AfterBranch(TRUE).pc
    /\ branchIdx' = AfterBranch(TRUE).idx
    /\ UNCHANGED <<commits, config, remote, localFile, exitCode, raisedAt, argMultiple,
                   argSkip, fetched, data, json_data, contents, calls, run,
                   exits, otherWrites>>

\* lines 176-184: the file is not there, create it
CreateFile ==
    /\ pc = "branch_body"
    /\ WritesEnabled
    /\ ~contents.found
    /\ \E delivered \in BOOLEAN :
          LET ok == delivered /\ CreateAccepted(remote[branch])
          IN  /\ calls' = calls \o <<Call("create_file", branch, <<>>, ok)>>
              /\ remote' = IF ok THEN [remote EXCEPT ![branch] = File(json_data)]
                           ELSE remote
              /\ commits' = IF ok THEN Append(commits, Commit("create_file", branch))
                            ELSE commits
              /\ raisedAt' = IF ok THEN raisedAt ELSE "create_file"
              /\ pc' = AfterBranch(ok).pc
              /\ branchIdx' = AfterBranch(ok).idx
    /\ UNCHANGED <<config, localFile, exitCode, argMultiple, argSkip, fetched,
                   data, json_data, contents, run, exits, otherWrites>>

\* line 187 where the file's bytes are not UTF-8: the comparison raises
CompareRaises ==
    /\ pc = "branch_body"
    /\ WritesEnabled
    /\ contents.found
    /\ Compare(json_data, contents.decoded).raised
    /\ raisedAt' = "decode"
    /\ pc' = AfterBranch(FALSE).pc
    /\ branchIdx' = AfterBranch(FALSE).idx
    /\ UNCHANGED <<commits, config, remote, localFile, exitCode, argMultiple, argSkip,
                   fetched, data, json_data, contents, calls, run, exits,
                   otherWrites>>

\* lines 187-188: the data has not changed, no commit
Unchanged ==
    /\ pc = "branch_body"
    /\ WritesEnabled
    /\ contents.found
    /\ ~Compare(json_data, contents.decoded).raised
    /\ Compare(json_data, contents.decoded).same
    /\ pc' = AfterBranch(TRUE).pc
    /\ branchIdx' = AfterBranch(TRUE).idx
    /\ UNCHANGED <<commits, config, remote, localFile, exitCode, raisedAt, argMultiple,
                   argSkip, fetched, data, json_data, contents, calls, run,
                   exits, otherWrites>>

\* lines 189-197: the data has changed, update the file
UpdateFile ==
    /\ pc = "branch_body"
    /\ WritesEnabled
    /\ contents.found
    /\ ~Compare(json_data, contents.decoded).raised
    /\ ~Compare(json_data, contents.decoded).same
    /\ \E delivered \in BOOLEAN :
          LET ok == delivered /\ UpdateAccepted(remote[branch], UpdateSha)
          IN  /\ calls' = calls \o <<Call("update_file", branch, UpdateSha, ok)>>
              /\ remote' = IF ok THEN [remote EXCEPT ![branch] = File(json_data)]
                           ELSE remote
              /\ commits' = IF ok THEN Append(commits, Commit("update_file", branch))
                            ELSE commits
              /\ raisedAt' = IF ok THEN raisedAt ELSE "update_file"
              /\ pc' = AfterBranch(ok).pc
              /\ branchIdx' = AfterBranch(ok).idx
    /\ UNCHANGED <<config, localFile, exitCode, argMultiple, argSkip, fetched,
                   data, json_data, contents, run, exits, otherWrites>>

\* update_data returned: the script ends with status 0
Return ==
    /\ pc = "return"
    /\ pc' = "exited"
    /\ exitCode' = 0
    /\ UNCHANGED <<commits, config, remote, localFile, raisedAt, argMultiple, argSkip,
                   fetched, data, json_data, branchIdx, contents, calls, run,
                   exits, otherWrites>>

\* ExceptHandler without the sys.exit(1): the script ends with status 0
ExceptHandlerPass ==
    /\ pc = "raised"
    /\ pc' = "exited"
    /\ exitCode' = 0
    /\ UNCHANGED <<commits, config, remote, localFile, raisedAt, argMultiple,
                   argSkip, fetched, data, json_data, branchIdx, contents,
                   calls, run, exits, otherWrites>>

\* lines 256-260: except Exception: print the traceback, sys.exit(1)
ExceptHandler ==
    /\ pc = "raised"
    /\ pc' = "exited"
    /\ exitCode' = 1
    /\ UNCHANGED <<commits, config, remote, localFile, raisedAt, argMultiple, argSkip,
                   fetched, data, json_data, branchIdx, contents, calls, run,
                   exits, otherWrites>>

\* The scheduler starts the script again: a new process, the same
\* configuration, spreadsheet and repository.
Rerun ==
    /\ pc = "exited"
    /\ run < MaxRuns
    /\ run' = run + 1
    /\ exits' = Append(exits, exitCode)
    /\ pc' = "import"
    /\ exitCode' = -1
    /\ raisedAt' = ""
    /\ fetched' = <<>>
    /\ data' = <<>>
    /\ json_data' = <<>>
    /\ branchIdx' = 0
    /\ contents' = NoContents
    /\ calls' = <<>>
    /\ UNCHANGED <<commits, config, remote, localFile, argMultiple, argSkip,
                   otherWrites>>

\* Somebody else commits to a target branch while commit_json is at work on
\* the branches: the file gets other bytes, or is deleted or created.  (A
\* commit made before the first lookup is a different start state.)
OtherWriter ==
    /\ pc \in {"contents", "branch_body"}
    /\ otherWrites < MaxOtherWrites
    /\ otherWrites' = otherWrites + 1
    /\ \E b \in Range(TARGET_BRANCHES), f \in FileStates :
          /\ f # remote[b]
          /\ remote' = [remote EXCEPT ![b] = f]
    /\ UNCHANGED <<commits, config, localFile, pc, exitCode, raisedAt, argMultiple,
                   argSkip, fetched, data, json_data, branchIdx, contents,
                   calls, run, exits>>

\* ---------------------------------------------------------- specifications

\* a process about to execute `startPc`
Started(startPc) ==
    /\ pc = startPc
    /\ exitCode = -1
    /\ raisedAt = ""
    /\ argMultiple = FALSE
    /\ argSkip = <<>>
    /\ data = <<>>
    /\ json_data = <<>>
    /\ branchIdx = 0
    /\ contents = NoContents
    /\ calls = <<>>
    /\ commits = <<>>
    /\ remoteAtStart = remote
    /\ run = 1
    /\ exits = <<>>
    /\ otherWrites = 0
    /\ localFile = [exists |-> FALSE, text |-> <<>>]

\* ... that has fetched nothing yet
Fresh(startPc) ==
    /\ fetched = <<>>
    /\ Started(startPc)

\* The script is started: any environment, any of the configurations, any
\* state of the target file on each target branch.
Init ==
    /\ environ \in SUBSET EnvVars
    /\ spreadsheet = PipelineSpreadsheet
    /\ \E c \in FetchConfigs :
          /\ FETCH_MULTIPLE_WORKSHEETS = c.multiple
          /\ WORKSHEETS_TO_SKIP = c.skip
          /\ GOOGLE_SPREADSHEET_SHEETNAME = c.name
    /\ MAKE_LOCAL_JSON \in BOOLEAN
    /\ COMMIT_JSON_TO_GITHUB \in BOOLEAN
    /\ \E n \in 1..MaxBranches : TARGET_BRANCHES = SubSeq(BranchNames, 1, n)
    /\ remote \in [Range(TARGET_BRANCHES) -> FileStates]
    /\ Fresh("import")

Next ==
    \/ ImportModule
    \/ FetchData
    \/ TransformData
    \/ MakeJson
    \/ CommitLogin
    \/ Lookup
    \/ DryRun
    \/ CreateFile
    \/ CompareRaises
    \/ Unchanged
    \/ UpdateFile
    \/ Return
    \/ ExceptHandler

\* one invocation of the script, alone on the repository
Spec == Init /\ [][Next]_vars

\* the script run again and again by its scheduler
NextTwice == Next \/ Rerun
SpecTwice == Init /\ [][NextTwice]_vars

\* one invocation while somebody else commits to the repository
NextRace == Next \/ OtherWriter
SpecRace == Init /\ [][NextRace]_vars

\* the source's configuration, but for the spreadsheet and the skip-list
SourceConfig ==
    /\ environ = EnvVars
    /\ MAKE_LOCAL_JSON = TRUE
    /\ COMMIT_JSON_TO_GITHUB = FALSE
    /\ FETCH_MULTIPLE_WORKSHEETS = FALSE
    /\ TARGET_BRANCHES = <<"gh-pages">>
    /\ remote = [b \in Range(TARGET_BRANCHES) |-> NoFile]

\* fetch_data on its own: any spreadsheet, any WORKSHEETS_TO_SKIP and
\* GOOGLE_SPREADSHEET_SHEETNAME, called with any arguments
InitFetch ==
    /\ SourceConfig
    /\ spreadsheet \in Spreadsheets
    /\ WORKSHEETS_TO_SKIP \in SkipLists
    /\ GOOGLE_SPREADSHEET_SHEETNAME \in {"", "B", "Z"}
    /\ Fresh("fetch_data")

NextFetch == CallFetchData
SpecFetch == InitFetch /\ [][NextFetch]_vars

\* transform_data on its own: any Dataset
InitTransform ==
    /\ SourceConfig
    /\ spreadsheet = PipelineSpreadsheet
    /\ WORKSHEETS_TO_SKIP = <<>>
    /\ GOOGLE_SPREADSHEET_SHEETNAME = ""
    /\ fetched \in Datasets
    /\ Started("transform_data")

NextTransform == TransformData
SpecTransform == InitTransform /\ [][NextTransform]_vars
\* ------------------------------------------------------------------ claims

WriteOps == {"create_file", "update_file"}

Count(seq, Test(_)) == Len(SelectSeq(seq, Test))

\* the calls of this process on branch b with an op in `ops`
CallsOn(b, ops) == SelectSeq(calls, LAMBDA c : c.branch = b /\ c.op \in ops)

CommitsOn(b) == Count(commits, LAMBDA c : c.branch = b)

\* commit_json (and so update_data) returned without raising
Returned == pc = "return" \/ (pc = "exited" /\ exitCode = 0)

\* the script ended with status 0
Succeeded == pc = "exited" /\ exitCode = 0

\* the script ended in the handler of line 256
Failed == pc = "exited" /\ exitCode = 1

\* C1: with the commit flag disabled no create_file or update_file call is
\* made, whatever the payload and whatever the target files are, nothing
\* changes on any branch, and a commit_json that returns has looked the file
\* up exactly once on every target branch.
C1_DryRunSafety ==
    ~COMMIT_JSON_TO_GITHUB =>
        /\ \A i \in DOMAIN calls : calls[i].op \notin WriteOps
        /\ commits = <<>>
        /\ remote = remoteAtStart
        /\ Returned =>
              \A b \in Range(TARGET_BRANCHES) :
                  /\ Len(CallsOn(b, {"contents"})) = 1
                  /\ CallsOn(b, {"contents"})[1].ok

\* a dry run that returned, with a file absent on one target branch and
\* different on the other
C1_Witness ==
    /\ ~COMMIT_JSON_TO_GITHUB
    /\ Succeeded
    /\ Len(TARGET_BRANCHES) = 2
    /\ remote[TARGET_BRANCHES[1]] = NoFile
    /\ remote[TARGET_BRANCHES[2]] = File(<<91, 93, 10>>)
    /\ Len(calls) = 7

\* C2: with commit enabled, when the script is alone on the repository and
\* commit_json returns, the file on every target branch is there and holds
\* the payload: made by one create_file where it was absent, by one
\* update_file where it differed, by no call at all where it was equal.
C2_PublisherPostcondition ==
    (COMMIT_JSON_TO_GITHUB /\ Returned) =>
        \A b \in Range(TARGET_BRANCHES) :
            LET writes == CallsOn(b, WriteOps)
            IN  /\ remote[b] = File(json_data)
                /\ IF remoteAtStart[b] = File(json_data) THEN writes = <<>>
                   ELSE /\ Len(writes) = 1
                        /\ writes[1].ok
                        /\ writes[1].op = IF remoteAtStart[b].present
                                          THEN "update_file" ELSE "create_file"

\* commit_json returned after one create and one update
C2_Witness ==
    /\ COMMIT_JSON_TO_GITHUB
    /\ Succeeded
    /\ Len(TARGET_BRANCHES) = 2
    /\ remoteAtStart[TARGET_BRANCHES[1]] = NoFile
    /\ remoteAtStart[TARGET_BRANCHES[2]] = File(<<91, 93, 10>>)
    /\ remote[TARGET_BRANCHES[2]] = File(ExpectedPayload)

\* this invocation follows one that ended with status 0, and ended so too
SecondGoodRun ==
    /\ COMMIT_JSON_TO_GITHUB
    /\ Succeeded
    /\ run >= 2
    /\ exits[run - 1] = 0

\* C3 as stated: two invocations in a row, commit enabled, the source data
\* unchanged and nobody else writing, make exactly one commit.
C3_ExactlyOneCommit == SecondGoodRun => Len(commits) = 1

\* C3 as amended: the second invocation makes no create_file or update_file
\* call, and all invocations together have made exactly one commit on each
\* target branch whose file was absent or different at the start, none on a
\* branch that held the payload already.
C3_Idempotence ==
    SecondGoodRun =>
        /\ \A i \in DOMAIN calls : calls[i].op \notin WriteOps
        /\ \A i \in DOMAIN commits : commits[i].run < run
        /\ \A b \in Range(TARGET_BRANCHES) :
              /\ remote[b] = File(json_data)
              /\ CommitsOn(b) = IF remoteAtStart[b] = File(json_data) THEN 0 ELSE 1

\* a second good run after a first one that committed on two branches
C3_Witness ==
    /\ SecondGoodRun
    /\ run = 2
    /\ Len(commits) = 2
    /\ commits[1].run = 1
    /\ commits[2].run = 1

\* the call of this branch's body raised
RaisedInLoop == raisedAt \in {"contents", "decode", "create_file", "update_file"}

\* C4 as stated: a failure on one branch blocks no other branch, so a run
\* that got to the branches has looked up every one of them when it ends.
C4_FailureDoesNotBlock ==
    (pc = "exited" /\ branchIdx >= 1) =>
        \A b \in Range(TARGET_BRANCHES) : CallsOn(b, {"contents"}) # <<>>

\* C4 as amended: a failure on one branch rolls back no write made on an
\* earlier branch (it still holds the payload), and it ends commit_json: no
\* call is made on any later branch, and the script exits with status 1.
C4_NoRollbackNoContinue ==
    /\ \A i \in DOMAIN commits : remote[commits[i].branch] = File(json_data)
    /\ RaisedInLoop =>
          /\ pc \in {"raised", "exited"}
          /\ pc = "exited" => exitCode = 1
          /\ calls[Len(calls)].branch = branch
          /\ \A j \in (branchIdx + 1)..Len(TARGET_BRANCHES) :
                CallsOn(TARGET_BRANCHES[j], WriteOps \union {"contents"}) = <<>>

\* the script ended on a failure on the second branch, after a commit on
\* the first, which is still there
C4_Witness ==
    /\ Failed
    /\ RaisedInLoop
    /\ branchIdx = 2
    /\ Len(commits) = 1
    /\ commits[1].branch = TARGET_BRANCHES[1]
    /\ remote[TARGET_BRANCHES[1]] = File(json_data)
    /\ remoteAtStart[TARGET_BRANCHES[1]] # File(json_data)

\* what the default _transform_response_item makes of one row
Normalized(item) == [k \in DOMAIN item \ {<<>>} |-> unicode(item[k])]

\* C5: transform_data returns one record per input record, in order, each
\* holding the input record's non-empty keys with the values as text; a
\* record with only empty keys, or none, stays (as an empty record).
C5_OneRecordPerInput ==
    pc = "make_json" =>
        /\ Len(data) = Len(fetched)
        /\ \A i \in 1..Len(data) : data[i] = Normalized(fetched[i])

\* the rows of the worksheets whose title is not in `skip`, in listing order
RowsNotSkipped(skip) ==
    LET kept == SelectSeq(spreadsheet, LAMBDA sheet : sheet.title \notin Range(skip))
    IN  Concat([i \in 1..Len(kept) |-> kept[i].records])

\* C6: in multi-sheet mode fetch_data returns the rows of the worksheets
\* whose title is not in the skip-list it was given, in listing order.
C6_SkipListArgument ==
    (pc = "transform_data" /\ argMultiple) => fetched = RowsNotSkipped(argSkip)

\* C7: the script ends with status 0 or 1.  Status 0 means nothing raised and
\* no call failed: the data was fetched, transformed and serialized (and
\* stored locally if asked), and with commit enabled every target branch
\* holds the payload.  Anything that raised or failed means status 1.
C7_ExitCode ==
    pc = "exited" =>
        /\ exitCode \in {0, 1}
        /\ exitCode = 0 <=>
              (raisedAt = "" /\ \A i \in DOMAIN calls : calls[i].ok)
        /\ exitCode = 0 =>
              /\ fetched = fetch_data(FETCH_MULTIPLE_WORKSHEETS, WORKSHEETS_TO_SKIP).data
              /\ data = transform_data(fetched)
              /\ json_data = make_json_bytes(data)
              /\ MAKE_LOCAL_JSON =>
                    localFile = [exists |-> TRUE, text |-> json_dumps(data)]
              /\ \A b \in Range(TARGET_BRANCHES) :
                    /\ CallsOn(b, {"contents"}) # <<>>
                    /\ COMMIT_JSON_TO_GITHUB => remote[b] = File(json_data)

\* a run with status 0 that had to commit
C7_Witness ==
    /\ Succeeded
    /\ COMMIT_JSON_TO_GITHUB
    /\ MAKE_LOCAL_JSON
    /\ Len(commits) >= 1

\* C8: with a required environment variable missing the script fails at
\* start-up (status 1) and has made no network call at all.
C8_MissingEnvironment ==
    ~(EnvVars \subseteq environ) =>
        /\ calls = <<>>
        /\ pc \in {"import", "exited"}
        /\ pc = "exited" => (exitCode = 1 /\ raisedAt = "import")

\* the script ended for want of the Google private key alone
C8_Witness ==
    /\ environ = EnvVars \ {"GOOGLE_API_PRIVATE_KEY"}
    /\ Failed
    /\ calls = <<>>

\* The GitHub calls of a run on which no call fails, from the start state of
\* the target files and the payload alone (branches i, i + 1, ...).
RECURSIVE ExpectedBranchCalls(_)
ExpectedBranchCalls(i) ==
    IF i > Len(TARGET_BRANCHES) THEN <<>>
    ELSE LET b      == TARGET_BRANCHES[i]
             file   == remoteAtStart[b]
             lookup == Call("contents", b, ContentsOf(file).sha, TRUE)
         IN  IF ~COMMIT_JSON_TO_GITHUB \/ file = File(ExpectedPayload)
             THEN <<lookup>> \o ExpectedBranchCalls(i + 1)
             ELSE IF ~file.present
             THEN <<lookup, Call("create_file", b, <<>>, TRUE)>>
                      \o ExpectedBranchCalls(i + 1)
             ELSE IF ~decode_utf8(file.content).ok THEN <<lookup>>
             ELSE <<lookup, Call("update_file", b, BlobSha(file.content), TRUE)>>
                      \o ExpectedBranchCalls(i + 1)

ExpectedGithubCalls ==
    <<Call("login", "", <<>>, TRUE), Call("repository", "", <<>>, TRUE)>>
        \o ExpectedBranchCalls(1)

GithubCalls == SelectSeq(calls, LAMBDA c : c.op \notin Range(FetchOps))

\* C9 as stated: whatever MAKE_LOCAL_JSON is and whether or not the local
\* write succeeds, a run on which no network call fails hands the same
\* payload to commit_json and makes the same GitHub calls.
C9_LocalWriteIndependent ==
    (pc = "exited" /\ raisedAt \in {"", "make_json", "decode"}) =>
        GithubCalls = ExpectedGithubCalls

\* C9 as amended: the same, as long as the local write does not fail; a
\* failed local write raises out of make_json, commit_json is never called
\* and no GitHub call is made.
C9_LocalWriteThenPublish ==
    /\ pc \in {"commit_json", "contents", "branch_body", "return"} =>
          json_data = ExpectedPayload
    /\ (pc = "exited" /\ raisedAt \in {"", "decode"}) =>
          /\ json_data = ExpectedPayload
          /\ GithubCalls = ExpectedGithubCalls
    /\ raisedAt = "make_json" =>
          /\ MAKE_LOCAL_JSON
          /\ GithubCalls = <<>>
          /\ remote = remoteAtStart
          /\ pc = "exited" => exitCode = 1

\* a run without local persistence that committed
C9_Witness ==
    /\ ~MAKE_LOCAL_JSON
    /\ ~localFile.exists
    /\ Succeeded
    /\ COMMIT_JSON_TO_GITHUB
    /\ Len(commits) = 2

\* the call log around every update_file call: it follows at once the ok
\* lookup of its branch, carries the blob id that lookup returned, is the
\* only update of its branch, and when it fails it is the last call made
\* and the script is on its way out with status 1
C10_Log ==
    \A i \in DOMAIN calls :
        calls[i].op = "update_file" =>
            /\ i > 1
            /\ calls[i - 1].op = "contents"
            /\ calls[i - 1].branch = calls[i].branch
            /\ calls[i - 1].ok
            /\ calls[i - 1].sha = calls[i].sha
            /\ calls[i].sha # <<>>
            /\ Len(CallsOn(calls[i].branch, {"update_file"})) = 1
            /\ ~calls[i].ok =>
                  /\ i = Len(calls)
                  /\ raisedAt = "update_file"
                  /\ pc \in {"raised", "exited"}
                  /\ pc = "exited" => exitCode = 1

\* the step that makes an update_file call
UpdateStep ==
    /\ Len(calls') = Len(calls) + 1
    /\ calls'[Len(calls')].op = "update_file"

\* the file on the branch is no longer the blob the lookup returned
Stale == remote[branch] # File(contents.decoded)

\* C10: on each branch update_file is called at most once, right after the
\* branch's lookup and with the blob id that lookup returned; an update
\* whose id is stale fails, leaves the other writer's file as it is, and the
\* script raises and makes no further call.
C10_UpdatePrecondition ==
    /\ []C10_Log
    /\ [][(UpdateStep /\ Stale) =>
             (remote' = remote /\ ~calls'[Len(calls')].ok /\ pc' = "raised")]_vars

\* the script ended on an update refused because somebody else had changed
\* the file after the lookup
C10_Witness ==
    /\ Failed
    /\ raisedAt = "update_file"
    /\ otherWrites = 1
    /\ calls[Len(calls)].op = "update_file"
    /\ remote[branch].present
    /\ BlobSha(remote[branch].content) # calls[Len(calls)].sha
====
